---------------------------- MODULE Spec2Model ----------------------------
(***************************************************************************)
(* Model of DataParser (js-digit-recognition): the per-digit data set      *)
(* cache, the grid partitioning and binarisation of a decoded image, and   *)
(* the combination of data sets.                                           *)
(*                                                                         *)
(* JavaScript values are modelled with their reference semantics: data     *)
(* sets and arrays live on a heap and are named by references, so that     *)
(* "the same instance" and "mutates its input" are statements the model    *)
(* can violate.  A decoded pixel buffer is a description of a picture that *)
(* is read one byte at a time through ByteAt.                              *)
(***************************************************************************)
EXTENDS Integers, Sequences, FiniteSets, TLC

(***************************************************************************)
(* Program constants.                                                      *)
(***************************************************************************)
IMAGE_SIZE == 16
RGB_THRESHOLD == 60
PIXEL_THRESHOLD == 30
DATA_SET_SIZE == 1100
TRAINING_SET_SIZE == 550

(***************************************************************************)
(* Bounds of the exploration.                                              *)
(***************************************************************************)
MaxDigit == 1
MaxLoads == 2
MaxReplacements == 1
MaxInputs == 2
MaxShuffleLen == 2

Digits == 0..MaxDigit

\* An empty slot of dataCache, and the reference a call returns when it throws.
None == 0 - 1
\* What a read outside a Uint8Array gives.
Undefined == 0 - 1
\* What subImage returns for a cell with too few white pixels (undefined).
NoImage == << >>

\* The array whose entries are those of the function f on 1..n.
Array(f) == SubSeq(f, 1, Len(f))

(***************************************************************************)
(* Pictures.  A Uint8Array of decoded pixels is described by its length,   *)
(* the grey level of the paper, and one rectangular patch of ink: with the *)
(* buffer cut into lines of `line` pixels, the patch is the first `count`  *)
(* pixels (line by line) of the rectangle of lines x0..x1 and offsets      *)
(* o0..o1.  Channels 0..2 of a pixel carry the grey level, channel 3 is    *)
(* the opaque alpha 255.                                                   *)
(***************************************************************************)
InPatch(data, pixel) ==
    /\ data.count > 0
    /\ LET ln == pixel \div data.line
           o  == pixel % data.line
       IN  /\ data.x0 <= ln /\ ln <= data.x1
           /\ data.o0 <= o /\ o <= data.o1
           /\ (ln - data.x0) * (data.o1 - data.o0 + 1) + (o - data.o0) < data.count

ByteAt(data, offset) ==
    IF offset < 0 \/ offset >= data.length THEN Undefined
    ELSE IF offset % 4 = 3 THEN 255
    ELSE IF InPatch(data, offset \div 4) THEN data.ink
    ELSE data.paper

Picture(width, height, paper, ink, x0, x1, o0, o1, count) ==
    [width |-> width, height |-> height,
     data |-> [length |-> width * height * 4, line |-> height - IMAGE_SIZE,
               paper |-> paper, ink |-> ink,
               x0 |-> x0, x1 |-> x1, o0 |-> o0, o1 |-> o1, count |-> count]]

(***************************************************************************)
(* The pictures the decoder may produce in this exploration.               *)
(*   PaperWhite : 44 x 25 = 1100 cells, white: every cell is accepted.     *)
(*   ThirdDark  : the same, with ink on the cell at position 3 that leaves *)
(*                it exactly 29 white pixels.                              *)
(*   SplitEdge  : 25 x 44 = 1100 cells at grey 60; the cell at position    *)
(*                549 is at grey 61, the cell at position 550 has exactly  *)
(*                30 pixels at grey 61.                                    *)
(*   Short1099  : 7 x 157 = 1099 cells;  OneCell : a single cell.          *)
(***************************************************************************)
PaperWhite == Picture(704, 400, 255, 0, 0, 0, 0, 0, 0)
ThirdDark  == Picture(704, 400, 255, 0, 32, 47, 0, 14, 227)
SplitEdge  == Picture(400, 704, 60, 61, 368, 399, 335, 350, 286)
Short1099  == Picture(112, 2512, 255, 0, 0, 0, 0, 0, 0)
OneCell    == Picture(16, 16, 255, 0, 0, 0, 0, 0, 0)
NoPicture  == Picture(0, 0, 0, 0, 0, 0, 0, 0, 0)

PictureList == <<PaperWhite, ThirdDark, SplitEdge, Short1099, OneCell>>

\* The number that names a picture in a reference or a record of a call.
PictureId(imageData) ==
    IF \E k \in DOMAIN PictureList : PictureList[k] = imageData
    THEN CHOOSE k \in DOMAIN PictureList : PictureList[k] = imageData
    ELSE 0

(***************************************************************************)
(* coordinatesToIndex, subImage.                                           *)
(***************************************************************************)
coordinatesToIndex(cx, cy, columns) == cy - 1 + cx * columns * IMAGE_SIZE

\* imageData[i] > RGB_THRESHOLD; a read outside the buffer gives undefined,
\* and undefined > 60 is false.
Brighter(value, threshold) == value # Undefined /\ value > threshold

\* The index of the pixel (row, column) of the cell that starts at (startX, startY).
imageDataIndexOf(startX, startY, row, column, columns) ==
    coordinatesToIndex(row + startX, column + startY, columns - 1)

subImageMatrix(startX, startY, size, columns, imageData) ==
    Array([i \in 1..(size * size) |->
        IF Brighter(ByteAt(imageData,
                           imageDataIndexOf(startX, startY, (i - 1) \div size,
                                            (i - 1) % size, columns) * 4),
                    RGB_THRESHOLD)
        THEN 1 ELSE 0])

whitePixelCount(matrix) == Cardinality({i \in DOMAIN matrix : matrix[i] = 1})

\* Faulty variant: a cell with exactly PIXEL_THRESHOLD white pixels is dropped.
TooFewWhiteInclusive(count) == count <= PIXEL_THRESHOLD

TooFewWhite(count) == count < PIXEL_THRESHOLD

subImage(startX, startY, size, columns, imageData) ==
    LET matrix == subImageMatrix(startX, startY, size, columns, imageData)
    IN  IF TooFewWhite(whitePixelCount(matrix)) THEN NoImage ELSE matrix

(***************************************************************************)
(* buildDataSet.  rows and columns divide exactly: every picture above has *)
(* dimensions that are multiples of IMAGE_SIZE.                            *)
(***************************************************************************)
Rows(imageData) == imageData.width \div IMAGE_SIZE
Columns(imageData) == imageData.height \div IMAGE_SIZE

\* Faulty variant: an image with exactly DATA_SET_SIZE cells is refused.
TooFewImagesOrEqual(rows, columns) == DATA_SET_SIZE >= rows * columns

TooFewImages(rows, columns) == DATA_SET_SIZE > rows * columns

\* The call of subImage made for the cell (rowsIterator, columnsIterator).
subImageOfCell(imageData, rowsIterator, columnsIterator) ==
    subImage(rowsIterator * IMAGE_SIZE, columnsIterator * IMAGE_SIZE,
             IMAGE_SIZE, Columns(imageData), imageData.data)

\* The loops visit the cells column by column, the rows of a column in the
\* inner loop; matrixCounter counts the visits from 1.
Visits(imageData) ==
    Array([p \in 1..(Columns(imageData) * Rows(imageData)) |->
        [columnsIterator |-> (p - 1) \div Rows(imageData),
         rowsIterator    |-> (p - 1) % Rows(imageData),
         matrixCounter   |-> p]])

\* subImage is pure and the array it returns is never written again: its
\* result for every cell of every picture that passes the size check is
\* computed once, and a digit matrix refers to it by picture and cell.
SubImages ==
    Array([k \in DOMAIN PictureList |->
        IF TooFewImages(Rows(PictureList[k]), Columns(PictureList[k]))
        THEN << >>
        ELSE LET visits == Visits(PictureList[k])
             IN  Array([p \in DOMAIN visits |->
                     [matrixCounter |-> visits[p].matrixCounter,
                      columnsIterator |-> visits[p].columnsIterator,
                      rowsIterator |-> visits[p].rowsIterator,
                      image |-> subImageOfCell(PictureList[k],
                                               visits[p].rowsIterator,
                                               visits[p].columnsIterator)]])])

\* The reference to the array subImage returned for a cell, and that array.
MatrixRef(picture, visit) ==
    [picture |-> picture, columnsIterator |-> visit.columnsIterator,
     rowsIterator |-> visit.rowsIterator]

MatrixAt(ref) ==
    SubImages[ref.picture][ref.columnsIterator * Rows(PictureList[ref.picture])
                           + ref.rowsIterator + 1].image

\* Faulty variant: the cell at position TRAINING_SET_SIZE goes to the training set.
InTrainingSetInclusive(matrixCounter) == matrixCounter <= TRAINING_SET_SIZE

InTrainingSet(matrixCounter) == matrixCounter < TRAINING_SET_SIZE

DigitMatrices(digit, picture, visited) ==
    Array([k \in 1..Len(visited) |->
        [digit |-> digit, matrix |-> MatrixRef(picture, visited[k])]])

buildDataSet(digit, imageData) ==
    IF TooFewImages(Rows(imageData), Columns(imageData))
    THEN [thrown |-> TRUE, trainingSet |-> << >>, testingSet |-> << >>]
    ELSE
      LET kept == SelectSeq(SubImages[PictureId(imageData)],
                            LAMBDA v : v.image # NoImage)
      IN  [thrown |-> FALSE,
           trainingSet |-> DigitMatrices(digit, PictureId(imageData),
               SelectSeq(kept, LAMBDA v : InTrainingSet(v.matrixCounter))),
           testingSet |-> DigitMatrices(digit, PictureId(imageData),
               SelectSeq(kept, LAMBDA v : ~InTrainingSet(v.matrixCounter)))]

\* buildDataSet is pure as well: what it returns for each digit and picture.
DataSets ==
    [digit \in Digits |->
        Array([k \in DOMAIN PictureList |-> buildDataSet(digit, PictureList[k])])]

(***************************************************************************)
(* The files raw_data/usps_{DIGIT}.jpg and getImageData.                   *)
(***************************************************************************)
Missing == [kind |-> "missing", image |-> NoPicture]
Corrupt == [kind |-> "corrupt", image |-> NoPicture]
Blank   == [kind |-> "blank", image |-> NoPicture]
Jpeg(image) == [kind |-> "jpeg", image |-> image]

\* What the file of each digit may hold in this exploration.
Shelf(digit) ==
    IF digit = 0
    THEN {Missing, Corrupt, Blank, Jpeg(Short1099), Jpeg(SplitEdge)}
    ELSE IF digit = 1
    THEN {Missing, Jpeg(OneCell), Jpeg(SplitEdge), Jpeg(PaperWhite),
          Jpeg(ThirdDark)}
    ELSE {Missing, Jpeg(SplitEdge)}

\* readFileSync throws on a missing file, jpeg.decode throws on bytes that are
\* no JPEG; a decode that yields nothing is returned as it is.
getImageData(file) ==
    IF file.kind = "missing"
    THEN [thrown |-> TRUE, decoded |-> FALSE, nothing |-> TRUE, imageData |-> NoPicture]
    ELSE IF file.kind = "corrupt"
    THEN [thrown |-> TRUE, decoded |-> FALSE, nothing |-> TRUE, imageData |-> NoPicture]
    ELSE IF file.kind = "blank"
    THEN [thrown |-> FALSE, decoded |-> FALSE, nothing |-> TRUE, imageData |-> NoPicture]
    ELSE [thrown |-> FALSE, decoded |-> TRUE, nothing |-> FALSE, imageData |-> file.image]

(***************************************************************************)
(* The heap.  `arrays` maps a reference to the entries of an array of      *)
(* IDigitMatrix, `sets` maps a reference to an IDigitDataSet, whose two    *)
(* fields are references to arrays.                                        *)
(***************************************************************************)
Fresh(heap) == CHOOSE r \in 0..Cardinality(DOMAIN heap) : r \notin DOMAIN heap

Restrict(heap, refs) == [r \in refs |-> heap[r]]

newArray(heap, entries) ==
    [heap |-> heap @@ (Fresh(heap) :> entries), ref |-> Fresh(heap)]

\* Faulty variants of concat: the operands swapped; and the entries of a
\* put in front of those of b in the array b itself, which is returned.
concatReversed(heap, a, b) == newArray(heap, heap[b] \o heap[a])

concatIntoOperand(heap, a, b) ==
    [heap |-> [heap EXCEPT ![b] = heap[a] \o heap[b]], ref |-> b]

\* a.concat(b): a new array, a and b are left as they are.
concat(heap, a, b) == newArray(heap, heap[a] \o heap[b])

\* Faulty variant of the shuffle: every slot receives the entry drawn first.
shuffleRepeating(heap, a, perm) ==
    [heap EXCEPT ![a] = Array([k \in 1..Len(heap[a]) |-> heap[a][perm[1]]])]

\* knuthShuffle(a): permutes the entries of a in place and returns a.
shuffle(heap, a, perm) ==
    [heap EXCEPT ![a] = Array([k \in 1..Len(heap[a]) |-> heap[a][perm[k]]])]

\* What stays on the heap when only the data sets `live` are still referenced.
CollectSets(objects, live) == Restrict(objects, live)
CollectArrays(heap, objects, live) ==
    Restrict(heap, {objects[r].trainingSet : r \in live}
                   \cup {objects[r].testingSet : r \in live})

(***************************************************************************)
(* State.                                                                  *)
(***************************************************************************)
VARIABLES
    files,       \* digit -> what raw_data/usps_{digit}.jpg holds
    dataCache,   \* DataParser.dataCache: digit -> reference of a data set, or None
    sets,        \* heap of data sets
    arrays,      \* heap of arrays
    last,        \* the last call: its arguments and what it returned or threw
    loads,       \* digit -> calls of getImageData made for it
    decodes,     \* digit -> images jpeg.decode produced for it
    builds,      \* digit -> calls of buildDataSet made for it
    partitions,  \* digit -> calls of buildDataSet that went through the cells
    replaced     \* times a file was replaced

vars == <<files, dataCache, sets, arrays, last, loads, decodes, builds,
          partitions, replaced>>

Call(op, digit, inputs, randomise, picture, status, value) ==
    [op |-> op, digit |-> digit, inputs |-> inputs, randomise |-> randomise,
     picture |-> picture, status |-> status, value |-> value]

Cached == {dataCache[d] : d \in Digits} \ {None}

Init ==
    /\ files \in {f \in [Digits -> UNION {Shelf(d) : d \in Digits}] :
                    \A d \in Digits : f[d] \in Shelf(d)}
    /\ dataCache = [d \in Digits |-> None]
    /\ sets = << >>
    /\ arrays = << >>
    /\ last = Call("none", None, << >>, FALSE, 0, "none", None)
    /\ loads = [d \in Digits |-> 0]
    /\ decodes = [d \in Digits |-> 0]
    /\ builds = [d \in Digits |-> 0]
    /\ partitions = [d \in Digits |-> 0]
    /\ replaced = 0

(***************************************************************************)
(* getDataSet.                                                             *)
(***************************************************************************)
\* Faulty variant: the cache is never consulted.
neverHit(cache, digit) == FALSE

\* if (this.dataCache[digit]): a stored data set is an object, hence truthy.
CacheHit(cache, digit) == cache[digit] # None

\* Faulty variants: the slot is written even when the call threw; and the
\* slot is never written.
cacheAlways(cache, digit, thrown, ref) == [cache EXCEPT ![digit] = ref]

cacheNever(cache, digit, thrown, ref) == cache

\* this.dataCache[digit] = dataSet, reached only when nothing was thrown.
cacheAfterMiss(cache, digit, thrown, ref) ==
    IF thrown THEN cache ELSE [cache EXCEPT ![digit] = ref]

GetDataSet(digit) ==
    LET heldSets == CollectSets(sets, Cached)
        heldArrays == CollectArrays(arrays, sets, Cached)
    IN
    IF CacheHit(dataCache, digit)
    THEN /\ last' = Call("getDataSet", digit, << >>, FALSE, 0, "hit", dataCache[digit])
         /\ sets' = heldSets
         /\ arrays' = heldArrays
         /\ UNCHANGED <<files, dataCache, loads, decodes, builds, partitions, replaced>>
    ELSE
      LET imageData == getImageData(files[digit])
          loaded == ~imageData.thrown /\ ~imageData.nothing
          dataSet == IF loaded THEN DataSets[digit][PictureId(imageData.imageData)]
                     ELSE [thrown |-> TRUE, trainingSet |-> << >>, testingSet |-> << >>]
          thrown == ~loaded \/ dataSet.thrown
          training == newArray(heldArrays, dataSet.trainingSet)
          testing == newArray(training.heap, dataSet.testingSet)
          ref == Fresh(heldSets)
          object == [trainingSet |-> training.ref, testingSet |-> testing.ref]
          cache == cacheAfterMiss(dataCache, digit, thrown, ref)
          live == ({cache[d] : d \in Digits} \ {None})
                  \cup (IF thrown THEN {} ELSE {ref})
      IN  /\ loads[digit] < MaxLoads
          /\ loads' = [loads EXCEPT ![digit] = @ + 1]
          /\ decodes' = [decodes EXCEPT ![digit] = @ + (IF imageData.decoded THEN 1 ELSE 0)]
          /\ builds' = [builds EXCEPT ![digit] = @ + (IF loaded THEN 1 ELSE 0)]
          /\ partitions' = [partitions EXCEPT ![digit] = @ + (IF thrown THEN 0 ELSE 1)]
          /\ dataCache' = cache
          /\ sets' = CollectSets(heldSets @@ (ref :> object), live)
          /\ arrays' = CollectArrays(testing.heap, heldSets @@ (ref :> object), live)
          /\ last' = Call("getDataSet", digit, << >>, FALSE,
                          PictureId(imageData.imageData),
                          IF imageData.thrown THEN "load threw"
                          ELSE IF imageData.nothing THEN "no image data"
                          ELSE IF dataSet.thrown THEN "too few images"
                          ELSE "built",
                          IF thrown THEN None ELSE ref)
          /\ UNCHANGED <<files, replaced>>

(***************************************************************************)
(* combineDataSets.                                                        *)
(***************************************************************************)
RECURSIVE concatAll(_, _, _, _, _)
concatAll(heap, dataSets, i, allTrainingSets, allTestingSets) ==
    IF i > Len(dataSets)
    THEN [heap |-> heap, trainingSet |-> allTrainingSets, testingSet |-> allTestingSets]
    ELSE LET training == concat(heap, allTrainingSets, dataSets[i].trainingSet)
             testing == concat(training.heap, allTestingSets, dataSets[i].testingSet)
         IN  concatAll(testing.heap, dataSets, i + 1, training.ref, testing.ref)

combineDataSets(heap, dataSets, randomise, permTraining, permTesting) ==
    LET allTrainingSets == newArray(heap, << >>)
        allTestingSets == newArray(allTrainingSets.heap, << >>)
        all == concatAll(allTestingSets.heap, dataSets, 1,
                         allTrainingSets.ref, allTestingSets.ref)
    IN  [heap |-> IF randomise
                  THEN shuffle(shuffle(all.heap, all.trainingSet, permTraining),
                               all.testingSet, permTesting)
                  ELSE all.heap,
         testingSet |-> all.testingSet,
         trainingSet |-> all.trainingSet]

\* The sequences of at most MaxInputs data sets the caller holds.
RECURSIVE InputsOfLength(_, _)
InputsOfLength(refs, n) ==
    IF n = 0 THEN {<< >>}
    ELSE {Append(w, r) : w \in InputsOfLength(refs, n - 1), r \in refs}

Inputs(refs) == UNION {InputsOfLength(refs, n) : n \in 0..MaxInputs}

Identity(n) == [k \in 1..n |-> k]

CombineDataSets(inputs, randomise) ==
    LET heldSets == CollectSets(sets, Cached)
        heldArrays == CollectArrays(arrays, sets, Cached)
        dataSets == Array([k \in 1..Len(inputs) |-> heldSets[inputs[k]]])
        plain == combineDataSets(heldArrays, dataSets, FALSE, << >>, << >>)
        nTraining == Len(plain.heap[plain.trainingSet])
        nTesting == Len(plain.heap[plain.testingSet])
    IN  /\ randomise => nTraining <= MaxShuffleLen /\ nTesting <= MaxShuffleLen
        /\ \E permTraining \in IF randomise THEN Permutations(1..nTraining)
                                            ELSE {Identity(nTraining)},
              permTesting \in IF randomise THEN Permutations(1..nTesting)
                                           ELSE {Identity(nTesting)} :
             LET combined == combineDataSets(heldArrays, dataSets, randomise,
                                             permTraining, permTesting)
                 ref == Fresh(heldSets)
                 objects == heldSets @@
                     (ref :> [trainingSet |-> combined.trainingSet,
                              testingSet |-> combined.testingSet])
                 live == Cached \cup {ref}
             IN  /\ sets' = CollectSets(objects, live)
                 /\ arrays' = CollectArrays(combined.heap, objects, live)
                 /\ last' = Call("combineDataSets", None, inputs, randomise,
                                 0, "combined", ref)
        /\ UNCHANGED <<files, dataCache, loads, decodes, builds, partitions, replaced>>

(***************************************************************************)
(* The environment: the file of a digit is replaced (created, repaired,    *)
(* overwritten or deleted) between two calls.                              *)
(***************************************************************************)
ReplaceFile(digit, file) ==
    /\ replaced < MaxReplacements
    /\ file # files[digit]
    /\ files' = [files EXCEPT ![digit] = file]
    /\ replaced' = replaced + 1
    /\ UNCHANGED <<dataCache, sets, arrays, last, loads, decodes, builds, partitions>>

Next ==
    \/ \E digit \in Digits : GetDataSet(digit)
    \/ \E inputs \in Inputs(Cached), randomise \in BOOLEAN :
          CombineDataSets(inputs, randomise)
    \/ \E digit \in Digits : \E file \in Shelf(digit) : ReplaceFile(digit, file)

Spec == Init /\ [][Next]_vars

(***************************************************************************)
(* Vocabulary of the properties.                                           *)
(***************************************************************************)
TrainingOf(r) == arrays[sets[r].trainingSet]
TestingOf(r) == arrays[sets[r].testingSet]

\* The data set the last call returned.
Returned == last.value

Failures == {"load threw", "no image data", "too few images"}

\* The number of cells of a picture, and a file from which a data set can be built.
CellCount(image) == (image.width \div IMAGE_SIZE) * (image.height \div IMAGE_SIZE)
Usable(file) == file.kind = "jpeg" /\ CellCount(file.image) >= DATA_SET_SIZE

\* The 1-based position of the cell a digit matrix was cut from, in the order
\* of enumeration: column after column, the rows of a column top to bottom.
Position(m) ==
    m.matrix.columnsIterator * (PictureList[m.matrix.picture].width \div IMAGE_SIZE)
    + m.matrix.rowsIterator + 1

Positions(seq) == {Position(seq[i]) : i \in DOMAIN seq}

Increasing(seq) ==
    \A i \in 1..(Len(seq) - 1) : Position(seq[i]) < Position(seq[i + 1])

\* The first-channel samples of the 256 pixels of a cell, local row after local
\* row, read at byte offset 4 * ((globalY - 1) + globalX * (columns - 1) * 16).
Samples(image, rowsIterator, columnsIterator) ==
    Array([i \in 1..(IMAGE_SIZE * IMAGE_SIZE) |->
        ByteAt(image.data,
               4 * ((((i - 1) % IMAGE_SIZE) + columnsIterator * IMAGE_SIZE - 1)
                    + (((i - 1) \div IMAGE_SIZE) + rowsIterator * IMAGE_SIZE)
                      * ((image.height \div IMAGE_SIZE) - 1) * IMAGE_SIZE))])

\* For every cell of every picture that passes the size check: the number of
\* its samples above RGB_THRESHOLD, and whether the matrix cut from it, if
\* any, has 256 entries that are 0 or 1 and are 1 exactly at those samples.
CellFacts ==
    Array([k \in DOMAIN PictureList |->
        IF CellCount(PictureList[k]) < DATA_SET_SIZE THEN << >>
        ELSE Array([p \in 1..CellCount(PictureList[k]) |->
            LET rows == PictureList[k].width \div IMAGE_SIZE
                samples == Samples(PictureList[k], (p - 1) % rows, (p - 1) \div rows)
                image == SubImages[k][p].image
            IN  [whites |-> Cardinality({i \in DOMAIN samples :
                                            samples[i] > RGB_THRESHOLD}),
                 accepted |-> image # NoImage,
                 binary |-> \/ image = NoImage
                            \/ /\ Len(image) = IMAGE_SIZE * IMAGE_SIZE
                               /\ \A i \in DOMAIN image :
                                    /\ image[i] \in {0, 1}
                                    /\ image[i] = 1 <=> samples[i] > RGB_THRESHOLD]])])

CellsBinarised ==
    \A k \in DOMAIN CellFacts : \A p \in DOMAIN CellFacts[k] :
        /\ CellFacts[k][p].binary
        /\ CellFacts[k][p].accepted <=> CellFacts[k][p].whites >= PIXEL_THRESHOLD

\* The positions of the cells of a picture that have at least 30 white pixels.
Accepted(k) == {p \in DOMAIN CellFacts[k] : CellFacts[k][p].whites >= PIXEL_THRESHOLD}

\* The concatenation, in the order of `inputs`, of one array of each data set.
RECURSIVE FlatTraining(_, _)
FlatTraining(inputs, n) ==
    IF n = 0 THEN << >> ELSE FlatTraining(inputs, n - 1) \o TrainingOf(inputs[n])

RECURSIVE FlatTesting(_, _)
FlatTesting(inputs, n) ==
    IF n = 0 THEN << >> ELSE FlatTesting(inputs, n - 1) \o TestingOf(inputs[n])

Occurrences(seq, e) == Cardinality({i \in DOMAIN seq : seq[i] = e})

SameMultiset(seq, other) ==
    /\ Len(seq) = Len(other)
    /\ \A i \in DOMAIN other : Occurrences(seq, other[i]) = Occurrences(other, other[i])

\* A cached data set and its two arrays are left as they are by a step.
StoredUnchanged(r) ==
    /\ r \in DOMAIN sets'
    /\ sets'[r] = sets[r]
    /\ arrays'[sets[r].trainingSet] = arrays[sets[r].trainingSet]
    /\ arrays'[sets[r].testingSet] = arrays[sets[r].testingSet]

(***************************************************************************)
(* C1.  Once getDataSet(d) has returned a data set, every later            *)
(* getDataSet(d) returns that same instance with the same content, and     *)
(* calls neither getImageData nor buildDataSet, whatever calls of          *)
(* getDataSet and combineDataSets (and changes of the file) happen in      *)
(* between.                                                                *)
(***************************************************************************)
C1_HitReturnsStoredInstance ==
    [][\A d \in Digits :
          dataCache[d] # None =>
            /\ dataCache'[d] = dataCache[d]
            /\ StoredUnchanged(dataCache[d])
            /\ loads'[d] = loads[d]
            /\ decodes'[d] = decodes[d]
            /\ builds'[d] = builds[d]
            /\ GetDataSet(d) => /\ last'.status = "hit"
                                /\ last'.value = dataCache[d]]_vars

\* A later call was served from the cache although the file had gone.
C1_Witness ==
    /\ last.op = "getDataSet"
    /\ last.status = "hit"
    /\ files[last.digit] = Missing
    /\ loads[last.digit] = 1
    /\ Returned = dataCache[last.digit]

(***************************************************************************)
(* C2.  A getDataSet(d) that fails (file missing, bytes that do not        *)
(* decode, nothing decoded, too few cells) leaves no entry for d and       *)
(* leaves every other entry as it was; a getDataSet(d) made without an     *)
(* entry while the file is a picture with enough cells loads and builds,   *)
(* succeeds and stores the entry.                                          *)
(***************************************************************************)
C2_FailureLeavesNoEntryRetrySucceeds ==
    [][\A d \in Digits :
          (dataCache[d] = None /\ GetDataSet(d)) =>
            /\ loads'[d] = loads[d] + 1
            /\ \A e \in Digits \ {d} :
                  /\ dataCache'[e] = dataCache[e]
                  /\ dataCache[e] # None => StoredUnchanged(dataCache[e])
            /\ IF Usable(files[d])
               THEN /\ last'.status = "built"
                    /\ builds'[d] = builds[d] + 1
                    /\ last'.value # None
                    /\ dataCache'[d] = last'.value
                    /\ last'.value \in DOMAIN sets'
               ELSE /\ last'.status \in Failures
                    /\ last'.value = None
                    /\ dataCache'[d] = None]_vars

\* A call failed before anything was decoded, and the retry succeeded.
C2_Witness ==
    /\ last.op = "getDataSet"
    /\ last.status = "built"
    /\ loads[last.digit] = 2
    /\ decodes[last.digit] = 1
    /\ dataCache[last.digit] = Returned

(***************************************************************************)
(* C3, as stated.  Across any sequence of getDataSet calls, failed and     *)
(* retried calls included, the image of a digit is decoded at most once    *)
(* and partitioned at most once.                                           *)
(***************************************************************************)
C3_DecodedAndPartitionedAtMostOnce ==
    \A d \in Digits : decodes[d] <= 1 /\ partitions[d] <= 1

(***************************************************************************)
(* C3, amended.  The image of a digit is partitioned at most once; once    *)
(* an entry is stored it is never evicted, overwritten or recomputed, and  *)
(* the image is never decoded again.  Only a call made without an entry    *)
(* decodes, so that an image is decoded once more for every call that      *)
(* failed after decoding it.                                               *)
(***************************************************************************)
C3_StoredOnceNeverRecomputed ==
    [][\A d \in Digits :
          /\ partitions'[d] <= 1
          /\ decodes'[d] <= (builds'[d] - partitions'[d]) + 1
          /\ dataCache'[d] # None <=> partitions'[d] = 1
          /\ dataCache[d] # None =>
                /\ dataCache'[d] = dataCache[d]
                /\ decodes'[d] = decodes[d]
                /\ partitions'[d] = partitions[d]]_vars

\* An image was decoded, refused for its size, and decoded again on the retry.
C3_Witness ==
    \E d \in Digits :
        /\ decodes[d] = 2
        /\ partitions[d] = 1
        /\ dataCache[d] # None

(***************************************************************************)
(* C4.  buildDataSet throws the too-few-images error exactly when          *)
(* (width / 16) * (height / 16) < 1100; it then returns nothing, no part   *)
(* of a data set either, and stores nothing; an image with exactly 1100    *)
(* cells is built.                                                         *)
(***************************************************************************)
C4_TooFewImagesExactlyBelow1100 ==
    /\ \A d \in Digits : \A k \in DOMAIN PictureList :
          /\ DataSets[d][k].thrown <=> CellCount(PictureList[k]) < DATA_SET_SIZE
          /\ DataSets[d][k].thrown =>
                DataSets[d][k].trainingSet = << >> /\ DataSets[d][k].testingSet = << >>
    /\ (last.op = "getDataSet" /\ last.status \in {"too few images", "built"}) =>
          /\ last.status = "too few images"
                <=> CellCount(PictureList[last.picture]) < DATA_SET_SIZE
          /\ last.status = "too few images" =>
                /\ Returned = None
                /\ dataCache[last.digit] = None
                /\ DOMAIN sets = Cached
                /\ partitions[last.digit] = 0

\* An image of 1099 cells was refused.
C4_Witness ==
    /\ last.op = "getDataSet"
    /\ last.status = "too few images"
    /\ CellCount(PictureList[last.picture]) = DATA_SET_SIZE - 1
    /\ builds[last.digit] = 1

C6_MatricesBinaryAndWhiteEnough ==
    /\ CellsBinarised
    /\ (last.op = "getDataSet" /\ last.status = "built") =>
          LET all == TrainingOf(Returned) \o TestingOf(Returned)
          IN  /\ \A i \in DOMAIN all :
                    LET facts == CellFacts[all[i].matrix.picture][Position(all[i])]
                        matrix == MatrixAt(all[i].matrix)
                    IN  /\ matrix # NoImage
                        /\ Len(matrix) = IMAGE_SIZE * IMAGE_SIZE
                        /\ facts.binary
                        /\ facts.whites >= PIXEL_THRESHOLD
              /\ Positions(all) = Accepted(last.picture)

\* A build kept a cell with exactly 30 white pixels and dropped all the others.
C6_Witness ==
    /\ last.op = "getDataSet"
    /\ last.status = "built"
    /\ PictureList[last.picture] = SplitEdge
    /\ Len(TestingOf(Returned)) = 1
    /\ CellFacts[last.picture][Position(TestingOf(Returned)[1])].whites = PIXEL_THRESHOLD
    /\ whitePixelCount(MatrixAt(TestingOf(Returned)[1].matrix)) = PIXEL_THRESHOLD

(***************************************************************************)
(* C7.  Without randomise, combineDataSets returns as trainingSet the      *)
(* concatenation of the trainingSets of its inputs in the order of the     *)
(* inputs, and as testingSet that of their testingSets; no input gives     *)
(* two empty arrays.                                                       *)
(***************************************************************************)
C7_CombineConcatenatesInOrder ==
    (last.op = "combineDataSets" /\ ~last.randomise) =>
        /\ TrainingOf(Returned) = FlatTraining(last.inputs, Len(last.inputs))
        /\ TestingOf(Returned) = FlatTesting(last.inputs, Len(last.inputs))
        /\ last.inputs = << >> =>
              TrainingOf(Returned) = << >> /\ TestingOf(Returned) = << >>

\* Two different data sets were combined in order.
C7_Witness ==
    /\ last.op = "combineDataSets"
    /\ ~last.randomise
    /\ Len(last.inputs) = 2
    /\ last.inputs[1] # last.inputs[2]
    /\ TrainingOf(last.inputs[1]) # << >>
    /\ TrainingOf(last.inputs[2]) # << >>
    /\ TrainingOf(Returned) = TrainingOf(last.inputs[1]) \o TrainingOf(last.inputs[2])

(***************************************************************************)
(* C8.  With randomise, the trainingSet and the testingSet combineDataSets *)
(* returns are each a permutation of the corresponding concatenation: the  *)
(* same elements as often, nothing lost, duplicated or moved between the   *)
(* two, whichever permutation the shuffle draws.                           *)
(***************************************************************************)
C8_ShuffleIsPermutation ==
    (last.op = "combineDataSets" /\ last.randomise) =>
        /\ SameMultiset(TrainingOf(Returned),
                        FlatTraining(last.inputs, Len(last.inputs)))
        /\ SameMultiset(TestingOf(Returned),
                        FlatTesting(last.inputs, Len(last.inputs)))

\* Two data sets were combined and the shuffle changed the order of both arrays.
C8_Witness ==
    /\ last.op = "combineDataSets"
    /\ last.randomise
    /\ Len(last.inputs) = 2
    /\ last.inputs[1] # last.inputs[2]
    /\ Len(TrainingOf(Returned)) = 2
    /\ TrainingOf(Returned) # FlatTraining(last.inputs, 2)
    /\ TestingOf(Returned) # FlatTesting(last.inputs, 2)

(***************************************************************************)
(* C9.  combineDataSets never changes its inputs nor the cache: after any  *)
(* call, randomise or not, with no, one or several inputs, cached          *)
(* instances included, the trainingSet and testingSet of every input hold  *)
(* the same elements in the same order as before, and dataCache is as it   *)
(* was.                                                                    *)
(***************************************************************************)
C9_CombineLeavesInputsAndCache ==
    [][last'.op = "combineDataSets" =>
          /\ dataCache' = dataCache
          /\ \A r \in Cached : StoredUnchanged(r)
          /\ \A i \in DOMAIN last'.inputs :
                /\ TrainingOf(last'.inputs[i]) = arrays'[sets'[last'.inputs[i]].trainingSet]
                /\ TestingOf(last'.inputs[i]) = arrays'[sets'[last'.inputs[i]].testingSet]]_vars

\* Two cached instances were combined and shuffled into another order, and
\* their own arrays are still the ones the build made.
C9_Witness ==
    /\ last.op = "combineDataSets"
    /\ last.randomise
    /\ Len(last.inputs) = 2
    /\ TestingOf(Returned) = TestingOf(last.inputs[2]) \o TestingOf(last.inputs[1])
    /\ TestingOf(Returned) # TestingOf(last.inputs[1]) \o TestingOf(last.inputs[2])
    /\ \A i \in DOMAIN last.inputs :
          /\ dataCache[TestingOf(last.inputs[i])[1].digit] = last.inputs[i]
          /\ TestingOf(last.inputs[i]) =
                DataSets[TestingOf(last.inputs[i])[1].digit]
                        [TestingOf(last.inputs[i])[1].matrix.picture].testingSet

(***************************************************************************)
(* C10, as stated.  For every image buildDataSet accepts, every cell and   *)
(* every pixel (row, column) of it, the index coordinatesToIndex computes  *)
(* lies in 0 .. width * height - 1: the byte read is inside the buffer.    *)
(***************************************************************************)
C10_PixelIndexInsideBuffer ==
    (last.op = "getDataSet" /\ last.status = "built") =>
        LET image == PictureList[last.picture]
        IN  \A columnsIterator \in 0..(Columns(image) - 1) :
            \A rowsIterator \in 0..(Rows(image) - 1) :
            \A row \in 0..(IMAGE_SIZE - 1) :
            \A column \in 0..(IMAGE_SIZE - 1) :
                LET imageDataIndex ==
                        imageDataIndexOf(rowsIterator * IMAGE_SIZE,
                                         columnsIterator * IMAGE_SIZE,
                                         row, column, Columns(image))
                IN  0 <= imageDataIndex /\ imageDataIndex < image.width * image.height

=============================================================================
